---- MODULE Spec2Model ----
(***************************************************************************)
(* avg.c: cumulative and simple moving averages of a stream of samples.    *)
(*                                                                         *)
(* A double is modelled as an exact rational <<n, d>>, d > 0, in lowest    *)
(* terms; a printed line ("%lf") is the number of millionths it shows.     *)
(* The input stream is a sequence of tokens, each a number or a malformed  *)
(* token; the command line is the set of options given.                    *)
(***************************************************************************)
EXTENDS Integers, Sequences, FiniteSets, TLC

(* ------------------------------ bounds -------------------------------- *)

\* longest input stream, in tokens
MaxLen == 4
\* largest window size given with -W
MaxWindow == 3
\* loop iterations followed after the stream stopped advancing
MaxStale == 2

\* the numeric tokens of the input
Samples == {-3, 2, 7}

(* ---------------------------- rationals ------------------------------- *)

Abs(i) == IF i < 0 THEN -i ELSE i

RECURSIVE GCD(_, _)
GCD(a, b) == IF b = 0 THEN a ELSE GCD(b, a % b)

\* the rational n/d (d # 0) in lowest terms with a positive denominator
Norm(n, d) ==
  LET s == IF d < 0 THEN -1 ELSE 1
      g == GCD(Abs(n), Abs(d))
  IN  IF n = 0 THEN <<0, 1>> ELSE <<(s * n) \div g, (s * d) \div g>>

Zero == <<0, 1>>

FromInt(i) == <<i, 1>>

\* double + double
QAdd(p, q) == Norm(p[1] * q[2] + q[1] * p[2], p[2] * q[2])

\* double / long (the long is converted to double; k # 0 in every call made)
QDivInt(q, k) == Norm(q[1], q[2] * k)

\* printf("%lf\n", q): fixed point, six fractional digits, round to nearest,
\* ties to even; the value is the signed number of millionths printed
Fmt(q) ==
  LET a    == Abs(q[1]) * 1000000
      fl   == a \div q[2]
      rem2 == 2 * (a % q[2])
      r    == IF rem2 > q[2] \/ (rem2 = q[2] /\ fl % 2 = 1) THEN fl + 1 ELSE fl
  IN  IF q[1] < 0 THEN -r ELSE r

(* ------------------------ cumulative_average_t ------------------------ *)

\* total = x instead of total += x
cumulative_average_overwrite(s, x) ==
  LET t == x
      c == s.count + 1
  IN  [average |-> QDivInt(t, c), total |-> t, count |-> c]

\* the struct after cumulative_average(&s, x); its return value is .average
cumulative_average(s, x) ==
  LET t == QAdd(s.total, x)
      c == s.count + 1
  IN  [average |-> QDivInt(t, c), total |-> t, count |-> c]

cma(s) == s.average

\* a reset that leaves the struct as it was
cma_reset_noop(s) == s

cma_reset(s) == [average |-> Zero, total |-> Zero, count |-> 0]

(* ---------------------- simple_moving_average_t ----------------------- *)

\* the across-windows averager is fed the raw sample
simple_moving_average_raw(s, x) ==
  LET cw == cumulative_average(s.current_window, x)
  IN  IF cw.count = s.window
        THEN [s EXCEPT !.current_window = cma_reset(cw),
                       !.simple_average = cumulative_average(s.simple_average, x)]
        ELSE [s EXCEPT !.current_window = cw]

\* the window mean is folded in on every update
simple_moving_average_always(s, x) ==
  LET cw == cumulative_average(s.current_window, x)
  IN  [s EXCEPT !.current_window = cma_reset(cw),
                !.simple_average = cumulative_average(s.simple_average, cma(cw))]

\* the struct after simple_moving_average(&s, x)
simple_moving_average(s, x) ==
  LET cw == cumulative_average(s.current_window, x)
  IN  IF cw.count = s.window
        THEN [s EXCEPT !.current_window = cma_reset(cw),
                       !.simple_average = cumulative_average(s.simple_average, cma(cw))]
        ELSE [s EXCEPT !.current_window = cw]

sma(s) == cma(s.simple_average)

\* the window size is stored one too large
sma_reset_off(s, window) ==
  [current_window |-> cma_reset(s.current_window),
   simple_average |-> cma_reset(s.simple_average),
   window         |-> window + 1]

sma_reset(s, window) ==
  [current_window |-> cma_reset(s.current_window),
   simple_average |-> cma_reset(s.simple_average),
   window         |-> window]

(* --------------------------- runtime modes ---------------------------- *)

UNKNOWN_RUNTIME_MODE == "UNKNOWN_RUNTIME_MODE"
CUMULATIVE_AVERAGE == "CUMULATIVE_AVERAGE"
SIMPLE_MOVING_AVERAGE == "SIMPLE_MOVING_AVERAGE"

\* the NULL-terminated table; the terminator has no mode string
runtime_modes ==
  << [mode |-> <<"CMA">>, id |-> CUMULATIVE_AVERAGE],
     [mode |-> <<"SMA">>, id |-> SIMPLE_MOVING_AVERAGE],
     [mode |-> <<>>,      id |-> UNKNOWN_RUNTIME_MODE] >>

\* the first entry whose mode string is present and equal to s
lookup_runtime_mode(s) ==
  LET hits == {i \in 1..Len(runtime_modes) :
                 runtime_modes[i].mode # <<>> /\ runtime_modes[i].mode[1] = s}
  IN  IF hits = {} THEN UNKNOWN_RUNTIME_MODE
      ELSE runtime_modes[CHOOSE i \in hits : \A j \in hits : i <= j].id

(* ------------------------------- atol --------------------------------- *)

Digits == <<"0", "1", "2", "3", "4", "5", "6", "7", "8", "9">>

IsDigit(c) == \E i \in 1..10 : Digits[i] = c

DigitVal(c) == (CHOOSE i \in 1..10 : Digits[i] = c) - 1

RECURSIVE AtolDigits(_, _)
AtolDigits(s, acc) ==
  IF s = <<>> \/ ~IsDigit(s[1]) THEN acc
  ELSE AtolDigits(Tail(s), 10 * acc + DigitVal(s[1]))

\* atol on a string given as its characters: an optional sign, then the
\* leading digits; 0 when there are none
atol(s) ==
  IF s # <<>> /\ s[1] = "-" THEN -AtolDigits(Tail(s), 0)
  ELSE IF s # <<>> /\ s[1] = "+" THEN AtolDigits(Tail(s), 0)
  ELSE AtolDigits(s, 0)

(* ----------------------------- the inputs ----------------------------- *)

ModeArgs == {"CMA", "SMA", "EMA"}

WindowArgs == {<<"-", "1">>, <<"x">>} \cup {<<Digits[w + 1]>> : w \in 0..MaxWindow}

\* the options that end the run inside parse_argv
ExitArgs == {"-h", "-V", "-?"}

Num(v) == [num |-> TRUE, val |-> v]
Malformed == [num |-> FALSE, val |-> 0]

Tokens == {Num(v) : v \in Samples} \cup {Malformed}

Streams == UNION {[1..k -> Tokens] : k \in 0..MaxLen}

\* what an uninitialised struct on the stack may hold
Garbage == { [average |-> Zero, total |-> Zero, count |-> 0],
             [average |-> <<5, 2>>, total |-> FromInt(5), count |-> 2] }

(* ---------------------------- the state ------------------------------- *)

VARIABLES
  pc,          \* the position in main
  flags,       \* runtime_flags
  in,          \* FILE *in: "stdin", "file", "NULL"
  stream,      \* the tokens of the input
  pos,         \* tokens consumed from the input
  x,           \* double x: [set, val], not set while uninitialised
  cma_state,   \* case CUMULATIVE_AVERAGE: struct cumulative_average_t state
  sma_state,   \* case SIMPLE_MOVING_AVERAGE: struct simple_moving_average_t state
  count,       \* case SIMPLE_MOVING_AVERAGE: long count
  n,           \* loop iterations made (samples fed to the averager)
  out,         \* the lines written to stdout
  io,          \* the stdio calls made on the input source
  exit         \* "running", "EXIT_SUCCESS", "EXIT_FAILURE", "SIGSEGV"

vars == <<pc, flags, in, stream, pos, x, cma_state, sma_state, count, n, out, io, exit>>

EOF == -1

DefaultWindow == 10

OutOfScope == [inscope |-> FALSE]

\* main up to the call of parse_argv: static runtime_flags = {0}, then the defaults
Init ==
  /\ pc = "parse_argv"
  /\ flags = [data_filename |-> FALSE, runtime_mode |-> CUMULATIVE_AVERAGE,
              show_intermediates |-> FALSE, window_size |-> DefaultWindow]
  /\ in = "unset"
  /\ stream \in Streams
  /\ pos = 0
  /\ x = [set |-> FALSE, val |-> 0]
  /\ cma_state = OutOfScope
  /\ sma_state = OutOfScope
  /\ count = 0
  /\ n = 0
  /\ out = <<>>
  /\ io = [fopen |-> 0, fclose |-> 0, fscanf_null |-> FALSE, fclose_null |-> FALSE]
  /\ exit = "running"

(* ----------------------------- parse_argv ---------------------------- *)

Opt(S) == {<<>>} \cup {<<a>> : a \in S}

\* The command line is [-m MODE] [-W SIZE] [-I] [-h | -V | -?] [DATAFILE], each
\* part present or not, read by getopt_long in this order.
ParseArgv ==
  /\ pc = "parse_argv"
  /\ \E mopt \in Opt(ModeArgs), wopt \in Opt(WindowArgs), iopt \in BOOLEAN,
        eopt \in Opt(ExitArgs), file \in BOOLEAN :
       LET m  == IF mopt = <<>> THEN flags.runtime_mode ELSE lookup_runtime_mode(mopt[1])
           f1 == [flags EXCEPT !.runtime_mode = m]
           f2 == IF wopt = <<>> THEN f1 ELSE [f1 EXCEPT !.window_size = atol(wopt[1])]
           f3 == IF iopt THEN [f2 EXCEPT !.show_intermediates = TRUE] ELSE f2
           f4 == IF file THEN [f3 EXCEPT !.data_filename = TRUE] ELSE f3
       IN  IF mopt # <<>> /\ m = UNKNOWN_RUNTIME_MODE
             THEN /\ flags' = flags
                  /\ exit' = "EXIT_FAILURE"
                  /\ pc' = "exited"
           ELSE IF eopt # <<>>
             THEN /\ flags' = f3
                  /\ exit' = IF eopt[1] \in {"-h", "-V"} THEN "EXIT_SUCCESS"
                             ELSE "EXIT_FAILURE"
                  /\ pc' = "exited"
           ELSE /\ flags' = f4
                /\ exit' = exit
                /\ pc' = "open"
  /\ UNCHANGED <<in, stream, pos, x, cma_state, sma_state, count, n, out, io>>

(* -------------------------------- main -------------------------------- *)

\* FILE *in = stdin; if a file is named, in = fopen(...), which may fail
OpenInput ==
  /\ pc = "open"
  /\ IF flags.data_filename
       THEN /\ in' \in {"file", "NULL"}
            /\ io' = [io EXCEPT !.fopen = @ + 1]
       ELSE /\ in' = "stdin"
            /\ io' = io
  /\ pc' = "switch"
  /\ UNCHANGED <<flags, stream, pos, x, cma_state, sma_state, count, n, out, exit>>

\* switch(runtime_flags.runtime_mode), up to the first fscanf of the case taken
Switch ==
  /\ pc = "switch"
  /\ \E g \in Garbage :
       IF flags.runtime_mode = CUMULATIVE_AVERAGE
         THEN /\ cma_state' = cma_reset(g)
              /\ pc' = IF flags.show_intermediates THEN "cma_show" ELSE "cma_final"
              /\ UNCHANGED <<sma_state, count, exit>>
       ELSE IF flags.runtime_mode = SIMPLE_MOVING_AVERAGE
         THEN /\ count' = 0
              /\ sma_state' = sma_reset([current_window |-> g, simple_average |-> g,
                                         window |-> g.count], flags.window_size)
              /\ pc' = "sma"
              /\ UNCHANGED <<cma_state, exit>>
       ELSE /\ exit' = "EXIT_FAILURE"
            /\ pc' = "exited"
            /\ UNCHANGED <<cma_state, sma_state, count>>
  /\ UNCHANGED <<flags, in, stream, pos, x, n, out, io>>

\* fscanf(in, "%lf", &x) on an open stream: EOF at the end of the input; 1, x
\* assigned and the token consumed on a number; 0 on a malformed token, which
\* stays in the stream, x untouched
fscanf(s, p, xv) ==
  IF p >= Len(s) THEN [ret |-> EOF, pos |-> p, x |-> xv]
  ELSE IF s[p + 1].num THEN [ret |-> 1, pos |-> p + 1, x |-> [set |-> TRUE, val |-> s[p + 1].val]]
  ELSE [ret |-> 0, pos |-> p, x |-> xv]

\* the values a read of x may give: any double while x is uninitialised
Read(xv) == IF xv.set THEN {xv.val} ELSE Samples

\* the loop goes on although the stream no longer advances; followed MaxStale times
Followed(r) == r.ret = 1 \/ n - pos < MaxStale

\* while(fscanf(...) != EOF) printf("%lf\n", cumulative_average(&state, x));
CmaShowStep ==
  /\ pc = "cma_show" /\ in # "NULL"
  /\ LET r == fscanf(stream, pos, x)
     IN  /\ r.ret # EOF /\ Followed(r)
         /\ \E v \in Read(r.x) :
              LET s == cumulative_average(cma_state, FromInt(v))
              IN  /\ cma_state' = s
                  /\ out' = Append(out, Fmt(s.average))
         /\ pos' = r.pos
         /\ x' = r.x
  /\ n' = n + 1
  /\ UNCHANGED <<pc, flags, in, stream, sma_state, count, io, exit>>

\* while(fscanf(...) != EOF) cumulative_average(&state, x);
CmaStep ==
  /\ pc = "cma_final" /\ in # "NULL"
  /\ LET r == fscanf(stream, pos, x)
     IN  /\ r.ret # EOF /\ Followed(r)
         /\ \E v \in Read(r.x) : cma_state' = cumulative_average(cma_state, FromInt(v))
         /\ pos' = r.pos
         /\ x' = r.x
  /\ n' = n + 1
  /\ UNCHANGED <<pc, flags, in, stream, sma_state, count, out, io, exit>>

\* the driver's counter never goes back to 0
SmaCount_noreset(c, w) == c + 1

\* count++; ...; if(count == window_size) count = 0;
SmaCount(c, w) == IF c + 1 = w THEN 0 ELSE c + 1

\* one iteration of the SIMPLE_MOVING_AVERAGE loop
SmaStep ==
  /\ pc = "sma" /\ in # "NULL"
  /\ LET r == fscanf(stream, pos, x)
     IN  /\ r.ret # EOF /\ Followed(r)
         /\ \E v \in Read(r.x) :
              LET s == simple_moving_average(sma_state, FromInt(v))
              IN  /\ sma_state' = s
                  /\ out' = IF count + 1 = flags.window_size /\ flags.show_intermediates
                              THEN Append(out, Fmt(sma(s))) ELSE out
         /\ count' = SmaCount(count, flags.window_size)
         /\ pos' = r.pos
         /\ x' = r.x
  /\ n' = n + 1
  /\ UNCHANGED <<pc, flags, in, stream, cma_state, io, exit>>

\* fscanf returned EOF: the loop is left and the final value printed where the
\* mode prints one. On in = NULL the call is undefined; returning EOF is one
\* outcome (the other is Fault).
LoopExit ==
  /\ pc \in {"cma_show", "cma_final", "sma"}
  /\ IF in = "NULL"
       THEN io' = [io EXCEPT !.fscanf_null = TRUE]
       ELSE /\ fscanf(stream, pos, x).ret = EOF
            /\ io' = io
  /\ out' = IF pc = "cma_final" THEN Append(out, Fmt(cma(cma_state)))
            ELSE IF pc = "sma" /\ ~flags.show_intermediates
              THEN Append(out, Fmt(sma(sma_state)))
            ELSE out
  /\ pc' = "close"
  /\ UNCHANGED <<flags, in, stream, pos, x, cma_state, sma_state, count, n, exit>>

\* fscanf(NULL, ...) or fclose(NULL): the process is killed
Fault ==
  /\ in = "NULL"
  /\ \/ /\ pc \in {"cma_show", "cma_final", "sma"}
        /\ io' = [io EXCEPT !.fscanf_null = TRUE]
     \/ /\ pc = "close"
        /\ io' = [io EXCEPT !.fclose_null = TRUE]
  /\ exit' = "SIGSEGV"
  /\ pc' = "exited"
  /\ UNCHANGED <<flags, in, stream, pos, x, cma_state, sma_state, count, n, out>>

\* if(runtime_flags.data_filename) fclose(in); return 0;
Close ==
  /\ pc = "close"
  /\ io' = IF ~flags.data_filename THEN io
           ELSE IF in = "NULL" THEN [io EXCEPT !.fclose_null = TRUE]
           ELSE [io EXCEPT !.fclose = @ + 1]
  /\ exit' = "EXIT_SUCCESS"
  /\ pc' = "exited"
  /\ UNCHANGED <<flags, in, stream, pos, x, cma_state, sma_state, count, n, out>>

Next ==
  \/ ParseArgv
  \/ OpenInput
  \/ Switch
  \/ CmaShowStep
  \/ CmaStep
  \/ SmaStep
  \/ LoopExit
  \/ Fault
  \/ Close

Spec == Init /\ [][Next]_vars

(* ------------------------- reference values --------------------------- *)

WellFormed(s) == \A i \in 1..Len(s) : s[i].num

\* the index of the first malformed token
FirstMalformed(s) == CHOOSE i \in 1..Len(s) : ~s[i].num /\ \A j \in 1..(i - 1) : s[j].num

RECURSIVE SumVals(_, _, _)
SumVals(s, a, b) == IF b < a THEN 0 ELSE SumVals(s, a, b - 1) + s[b].val

\* the arithmetic mean of samples a..b
MeanOf(s, a, b) == Norm(SumVals(s, a, b), b - a + 1)

\* the mean of the j-th window of w samples
WindowMean(s, j, w) == MeanOf(s, (j - 1) * w + 1, j * w)

RECURSIVE SumWindowMeans(_, _, _)
SumWindowMeans(s, m, w) ==
  IF m = 0 THEN Zero ELSE QAdd(SumWindowMeans(s, m - 1, w), WindowMean(s, m, w))

\* the mean of the first m window means; 0 for no window
MeanOfWindowMeans(s, m, w) ==
  IF m = 0 THEN Zero
  ELSE LET t == SumWindowMeans(s, m, w) IN Norm(t[1], t[2] * m)

InCma == cma_state # OutOfScope
InSma == sma_state # OutOfScope
AfterLoop == pc \in {"close", "exited"}

(* ------------------------------ claims -------------------------------- *)

\* C1: in CumulativeAverage mode, on a stream of samples, the average after the
\* k-th update, and the k-th line printed with show-intermediates, is
\* (x_1 + ... + x_k) / k; the one line of final-only mode is (x_1 + ... + x_n) / n.
C1_CumulativeAverage ==
  (InCma /\ in # "NULL" /\ WellFormed(stream)) =>
    /\ n = pos
    /\ cma_state.count = pos
    /\ cma_state.total = FromInt(SumVals(stream, 1, pos))
    /\ pos >= 1 => cma(cma_state) = MeanOf(stream, 1, pos)
    /\ flags.show_intermediates =>
         out = [k \in 1..pos |-> Fmt(MeanOf(stream, 1, k))]
    /\ (~flags.show_intermediates /\ AfterLoop /\ Len(stream) >= 1) =>
         /\ pos = Len(stream)
         /\ out = <<Fmt(MeanOf(stream, 1, Len(stream)))>>

C1_Witness ==
  /\ InCma /\ in = "file" /\ flags.show_intermediates /\ pc = "exited"
  /\ stream = <<Num(2), Num(7), Num(-3)>>
  /\ out = <<2000000, 4500000, 2000000>>

\* C2: with window size W > 0, after exactly m*W updates (m >= 1) sma() is the
\* mean of the m window means, the j-th being the mean of samples
\* (j-1)*W+1 .. j*W; the across-windows averager holds only window means.
C2_MeanOfWindowMeans ==
  (InSma /\ in # "NULL" /\ WellFormed(stream) /\ sma_state.window > 0
     /\ pos >= sma_state.window /\ pos % sma_state.window = 0) =>
    LET w == sma_state.window
        m == pos \div w
    IN  /\ sma(sma_state) = MeanOfWindowMeans(stream, m, w)
        /\ sma_state.simple_average.count = m
        /\ sma_state.simple_average.total = SumWindowMeans(stream, m, w)

C2_Witness ==
  /\ InSma /\ sma_state.window = 2 /\ pos = 4
  /\ stream = <<Num(2), Num(7), Num(-3), Num(-3)>>
  /\ sma(sma_state) = <<3, 4>>

\* the final-only line of SimpleMovingAverage mode is fixed by the first
\* floor(n/W)*W samples
C3_FinalLine ==
  (InSma /\ in # "NULL" /\ WellFormed(stream) /\ sma_state.window > 0
     /\ ~flags.show_intermediates /\ AfterLoop) =>
    /\ pos = Len(stream)
    /\ out = <<Fmt(MeanOfWindowMeans(stream, Len(stream) \div sma_state.window,
                                     sma_state.window))>>

\* an update that does not fill the window leaves the across-windows averager alone
C3_Frame ==
  (InSma /\ n' = n + 1 /\ sma_state.current_window.count + 1 # sma_state.window) =>
    /\ sma_state'.simple_average = sma_state.simple_average
    /\ sma(sma_state') = sma(sma_state)

\* C3: an update that does not fill the current window leaves the across-windows
\* averager and sma() unchanged; so the one value printed at end of stream in
\* final-only mode depends only on the first floor(n/W)*W samples, the trailing
\* n mod W never contributing.
C3_PartialWindowDropped == [][C3_Frame]_vars /\ []C3_FinalLine

C3_Witness ==
  /\ InSma /\ in = "stdin" /\ ~flags.show_intermediates /\ pc = "exited"
  /\ sma_state.window = 2
  /\ stream = <<Num(2), Num(7), Num(-3)>>
  /\ sma_state.current_window.count = 1
  /\ out = <<4500000>>

\* C4: in SimpleMovingAverage mode with show-intermediates and W > 0, n samples
\* give exactly floor(n / W) lines, one right after each W-th sample and none at
\* the end of the stream; the j-th line is the SMA after the j-th window.
C4_LinePerWindow ==
  (InSma /\ in # "NULL" /\ flags.show_intermediates /\ sma_state.window > 0) =>
    /\ Len(out) = n \div sma_state.window
    /\ WellFormed(stream) =>
         /\ n = pos
         /\ AfterLoop => n = Len(stream)
         /\ \A j \in 1..Len(out) :
              out[j] = Fmt(MeanOfWindowMeans(stream, j, sma_state.window))

C4_Witness ==
  /\ InSma /\ flags.show_intermediates /\ pc = "exited" /\ sma_state.window = 2
  /\ Len(stream) = 4 /\ WellFormed(stream)
  /\ Len(out) = 2 /\ out[1] # out[2]

\* C5: a malformed token ends the read loop as the end of the stream does: no
\* sample is fed to the averager from that token on.
C5_MalformedEndsInput ==
  (in \in {"stdin", "file"} /\ ~WellFormed(stream)) =>
    /\ n <= FirstMalformed(stream) - 1
    /\ n = pos

\* C6: a window size of zero or less is a configuration error: a fatal exit, no
\* sample fed to the simple moving averager, no averager output.
C6_NonPositiveWindowRejected ==
  (flags.runtime_mode = SIMPLE_MOVING_AVERAGE /\ flags.window_size <= 0
     /\ in # "NULL" /\ WellFormed(stream)) =>
    /\ n = 0
    /\ out = <<>>
    /\ (pc = "exited" /\ in # "unset") => exit = "EXIT_FAILURE"

\* C7: with no sample, CumulativeAverage final-only mode ends normally and
\* prints one line, 0: a reset averager has count = 0, total = 0, average = 0.
C7_EmptyInputPrintsZero ==
  /\ (InCma /\ n = 0) =>
       /\ cma_state.count = 0
       /\ cma_state.total = Zero
       /\ cma(cma_state) = Zero
  /\ (InCma /\ in # "NULL" /\ stream = <<>> /\ ~flags.show_intermediates) =>
       /\ n = 0
       /\ AfterLoop => out = <<0>>
       /\ pc = "exited" => exit = "EXIT_SUCCESS"

C7_Witness ==
  /\ InCma /\ in = "stdin" /\ stream = <<>> /\ ~flags.show_intermediates
  /\ pc = "exited" /\ exit = "EXIT_SUCCESS" /\ out = <<0>>

\* C8: the input source is acquired at most once, every acquired source is
\* released exactly once before the process ends, and it is never read or
\* released when the acquisition failed.
C8_InputReleasedOnce ==
  /\ io.fopen <= 1
  /\ ~io.fscanf_null
  /\ ~io.fclose_null
  /\ (pc = "exited" /\ in = "file") => io.fclose = 1
  /\ in # "file" => io.fclose = 0

\* C9: after sma_reset with the configured window size, current_window.count
\* is in [0, windowSize) after every simple_moving_average update, for every
\* sample sequence.
C9_WindowCountBelowSize ==
  (InSma /\ in # "NULL" /\ WellFormed(stream) /\ n >= 1) =>
    /\ sma_state.current_window.count >= 0
    /\ sma_state.current_window.count < sma_state.window

\* C10: in SimpleMovingAverage mode the driver's counter equals
\* current_window.count after every iteration, n = windowSize *
\* simple_average.count + current_window.count, and with show-intermediates the
\* lines printed are as many as the window means folded in.
C10_DriverCounterAgrees ==
  InSma =>
    /\ count = sma_state.current_window.count
    /\ n = sma_state.window * sma_state.simple_average.count
             + sma_state.current_window.count
    /\ sma_state.window = flags.window_size
    /\ flags.show_intermediates => Len(out) = sma_state.simple_average.count

C10_Witness ==
  /\ InSma /\ flags.show_intermediates /\ sma_state.window = 2
  /\ n = 3 /\ count = 1 /\ sma_state.simple_average.count = 1 /\ Len(out) = 1

====
